---- MODULE Spec2Model ----
(***************************************************************************)
(* hashjoin: join two text files with a hash table.  FILE1 (build side)    *)
(* is read as a whole into `dict`, FILE2 (probe side) is streamed and      *)
(* every line is looked up in `dict`.  The model follows main() of         *)
(* src/hashjoin.cpp statement by statement; the line reader of             *)
(* read_table_cpp.h is represented by the outcomes of one read: a line    *)
(* (its fields), end of file, or an error.  The options -t, -C, -s and -h  *)
(* are left out: the separator is one abstract token, the order in which   *)
(* the hash table is iterated is any order of its keys.                    *)
(***************************************************************************)
EXTENDS Integers, Sequences, FiniteSets, TLC

(* ------------------------------ bounds --------------------------------- *)
\* number of data lines the environment supplies on FILE1 / FILE2
MaxBuild == 2
MaxProbe == 2

\* the data lines of the input universe: one or two fields
Lines == {<<"a">>, <<"a", "b">>, <<"b", "a">>}
\* the header lines of the input universe: one or two fields
Headers == {<<"h">>, <<"h", "g">>}
\* the values given to -1, -2, -j (atoi gives 0 for a non-number)
FieldArgs == {0, 1, 2}
\* the values given to -a and -v
FileNums == {1, 2, 3}
\* the lists given to -o1 and -o2 (<<>> is the empty string argument)
ListArgs == {<< >>, <<2, 1>>, <<0>>}

\* what the output stream receives besides field values
SEP == "TAB"
NL == "NL"

\* the last error of a reader (read_table_cpp.h)
T_OK == "T_OK"
T_EOF == "T_EOF"
T_EOL == "T_EOL"
T_READ_ERROR == "T_READ_ERROR"

(* ------------------------------ state ---------------------------------- *)
VARIABLES
    pc,             \* position in main()
    exitcode,       \* -1 while running, else the value main() returned
    field1, field2, req_fields1, req_fields2,
    outfields1, outfields2,
    unpaired, only_unpaired, header, unique,
    s1, s2,         \* the two readers: lines read so far, last error
    dict,           \* key -> [lines, seen]
    tmp,            \* fields of the current build line
    file1header, file2header,
    line2,          \* fields of the current probe line
    out,            \* everything written to std::cout, in order
    cerr,           \* the messages written to std::cerr, in order
    out_lines, matched1, matched2, unmatched,
    in2,            \* history: the probe lines read_line() has returned
    emitted         \* history: one entry per row ended with '\n'

config == <<field1, field2, req_fields1, req_fields2, outfields1, outfields2,
            unpaired, only_unpaired, header, unique>>
counters == <<out_lines, matched1, matched2, unmatched>>
run == <<s1, s2, dict, tmp, file1header, file2header, line2, out, counters,
        in2, emitted>>
vars == <<pc, exitcode, config, cerr, run>>

(* ------------------------------ helpers --------------------------------- *)
\* (changed: the first value is kept, a larger second one is not taken)
MaxKeep(a, b) == a

Max(a, b) == IF a > b THEN a ELSE b

RECURSIVE SeqMax(_)
SeqMax(s) == IF s = << >> THEN 0 ELSE Max(Head(s), SeqMax(Tail(s)))

\* the first n elements of s
Prefix(s, n) == SubSeq(s, 1, n)

\* all orders in which the elements of the set S can be visited
Perms(S) == {p \in [1..Cardinality(S) -> S] : \A i, j \in 1..Cardinality(S) : p[i] = p[j] => i = j}

\* line[f-1] of the code; a read past the end of the vector is undefined
Field(line, f) == IF f >= 1 /\ f <= Len(line) THEN line[f] ELSE "OOB"


\* ParseLine: n = 0 splits the whole line, n > 0 reads exactly n fields and
\* fails on a line that has fewer
ParseLine(ln, n) ==
    IF n = 0 THEN [ok |-> TRUE, res |-> ln]
    ELSE IF Len(ln) >= n THEN [ok |-> TRUE, res |-> Prefix(ln, n)]
    ELSE [ok |-> FALSE, res |-> << >>]

\* WriteFields with a non-empty field list: one column per listed field; an
\* empty `line` writes the separators only
RECURSIVE WriteSelected(_, _, _)
WriteSelected(line, fields, firstout) ==
    IF fields = << >> THEN << >>
    ELSE LET f == Head(fields)
             tok == IF firstout
                    THEN (IF line # << >> THEN <<Field(line, f)>> ELSE << >>)
                    ELSE (IF line # << >> THEN <<SEP, Field(line, f)>> ELSE <<SEP>>)
         IN  tok \o WriteSelected(line, Tail(fields), FALSE)

\* WriteFields with an empty field list: every element of `line`
RECURSIVE WriteAll(_, _)
WriteAll(line, firstout) ==
    IF line = << >> THEN << >>
    ELSE (IF firstout THEN <<Head(line)>> ELSE <<SEP, Head(line)>>)
         \o WriteAll(Tail(line), FALSE)

\* WriteFields: what is written, and the value `firstout` has afterwards
WriteFields(line, fields, firstout) ==
    [toks     |-> IF fields # << >> THEN WriteSelected(line, fields, firstout)
                  ELSE WriteAll(line, firstout),
     firstout |-> IF fields # << >> \/ line # << >> THEN FALSE ELSE firstout]

\* a joined row: fields of the FILE1 line, fields of the FILE2 line, '\n'
PairedRow(line1, l2) ==
    LET a == WriteFields(line1, outfields1, TRUE)
        b == WriteFields(l2, outfields2, a.firstout)
    IN  a.toks \o b.toks \o <<NL>>

\* (changed: an empty -o1 list leaves one empty field for FILE1)
UnpairedRow2Placeholder(l2) ==
    LET a == IF outfields1 # << >> THEN WriteFields(<< >>, outfields1, TRUE)
             ELSE [toks |-> << >>, firstout |-> FALSE]
        b == WriteFields(l2, outfields2, a.firstout)
    IN  a.toks \o b.toks \o <<NL>>

\* an unpaired FILE2 line: empty fields for FILE1 when -o1 lists any
UnpairedRow2(l2) ==
    LET a == IF outfields1 # << >> THEN WriteFields(<< >>, outfields1, TRUE)
             ELSE [toks |-> << >>, firstout |-> TRUE]
        b == WriteFields(l2, outfields2, a.firstout)
    IN  a.toks \o b.toks \o <<NL>>

\* (changed: nothing is written for FILE2 after an unpaired FILE1 line)
UnpairedRow1Short(line1) ==
    WriteFields(line1, outfields1, TRUE).toks \o <<NL>>

\* an unpaired FILE1 line: empty fields for FILE2 when -o2 lists any
UnpairedRow1(line1) ==
    LET a == WriteFields(line1, outfields1, TRUE)
        b == IF outfields2 # << >> THEN WriteFields(<< >>, outfields2, a.firstout)
             ELSE [toks |-> << >>, firstout |-> a.firstout]
    IN  a.toks \o b.toks \o <<NL>>

\* the header written by -H: both header vectors, no '\n'
HeaderOut(h1, h2) ==
    LET a == WriteFields(h1, outfields1, TRUE)
        b == WriteFields(h2, outfields2, a.firstout)
    IN  a.toks \o b.toks

(* ------------------------------ initial state --------------------------- *)
Init ==
    /\ pc = "args"
    /\ exitcode = -1
    /\ field1 = 1 /\ field2 = 1
    /\ req_fields1 = 1 /\ req_fields2 = 1
    /\ outfields1 = << >> /\ outfields2 = << >>
    /\ unpaired = 0 /\ only_unpaired = FALSE
    /\ header = FALSE /\ unique = TRUE
    /\ s1 = [line |-> 0, err |-> T_OK]
    /\ s2 = [line |-> 0, err |-> T_OK]
    /\ dict = [k \in {} |-> 0]
    /\ tmp = << >>
    /\ file1header = << >> /\ file2header = << >>
    /\ line2 = << >>
    /\ out = << >>
    /\ cerr = << >>
    /\ out_lines = 0 /\ matched1 = 0 /\ matched2 = 0 /\ unmatched = 0
    /\ in2 = << >>
    /\ emitted = << >>

\* a message on std::cerr: its text, the key and the line number it names
Msg(text, key, line) == [msg |-> text, key |-> key, line |-> line]

\* return n from main()
Exit(n) == pc' = "exit" /\ exitcode' = n

\* write an error message and return 1
Fail(text, key, line) == cerr' = Append(cerr, Msg(text, key, line)) /\ Exit(1)

\* nothing is written to std::cerr and main goes on
Quiet == UNCHANGED <<cerr, exitcode>>

(* ------------------------------ option loop ----------------------------- *)
\* -1 FIELD
OptField1(n) ==
    /\ pc = "args"
    /\ field1' = n
    /\ UNCHANGED <<pc, exitcode, cerr, field2, req_fields1, req_fields2, outfields1,
                   outfields2, unpaired, only_unpaired, header, unique, run>>

\* -2 FIELD
OptField2(n) ==
    /\ pc = "args"
    /\ field2' = n
    /\ UNCHANGED <<pc, exitcode, cerr, field1, req_fields1, req_fields2, outfields1,
                   outfields2, unpaired, only_unpaired, header, unique, run>>

\* -j FIELD
OptJoin(n) ==
    /\ pc = "args"
    /\ field1' = n /\ field2' = n
    /\ UNCHANGED <<pc, exitcode, cerr, req_fields1, req_fields2, outfields1,
                   outfields2, unpaired, only_unpaired, header, unique, run>>

\* the FILENUM of -a and -v has to be 1 or 2
ValidFileNum(n) == n = 1 \/ n = 2

\* -a FILENUM
OptA(n) ==
    /\ pc = "args"
    /\ unpaired' = n
    /\ IF ValidFileNum(n) THEN UNCHANGED <<pc, exitcode, cerr>>
       ELSE Fail("-a parameter has to be either 1 or 2", "", 0)
    /\ UNCHANGED <<field1, field2, req_fields1, req_fields2, outfields1,
                   outfields2, only_unpaired, header, unique, run>>

\* -v FILENUM
OptV(n) ==
    /\ pc = "args"
    /\ unpaired' = n
    /\ IF ValidFileNum(n)
       THEN only_unpaired' = TRUE /\ UNCHANGED <<pc, exitcode, cerr>>
       ELSE Fail("-a parameter has to be either 1 or 2", "", 0) /\ UNCHANGED only_unpaired
    /\ UNCHANGED <<field1, field2, req_fields1, req_fields2, outfields1,
                   outfields2, header, unique, run>>

\* the list of -o is valid when every number read is >= 1; the empty string
\* is valid and gives the empty list
ValidList(list) == \A i \in 1..Len(list) : list[i] >= 1

\* -o1 FIELDS
OptO1(list) ==
    /\ pc = "args"
    /\ IF ValidList(list)
       THEN /\ outfields1' = list
            /\ req_fields1' = Max(req_fields1, SeqMax(list))
            /\ UNCHANGED <<pc, exitcode, cerr>>
       ELSE Fail("Invalid parameter", "", 0) /\ UNCHANGED <<outfields1, req_fields1>>
    /\ UNCHANGED <<field1, field2, req_fields2, outfields2, unpaired,
                   only_unpaired, header, unique, run>>

\* -o2 FIELDS
OptO2(list) ==
    /\ pc = "args"
    /\ IF ValidList(list)
       THEN /\ outfields2' = list
            /\ req_fields2' = Max(req_fields2, SeqMax(list))
            /\ UNCHANGED <<pc, exitcode, cerr>>
       ELSE Fail("Invalid parameter", "", 0) /\ UNCHANGED <<outfields2, req_fields2>>
    /\ UNCHANGED <<field1, field2, req_fields1, outfields1, unpaired,
                   only_unpaired, header, unique, run>>

\* -H
OptH ==
    /\ pc = "args"
    /\ header' = TRUE
    /\ UNCHANGED <<pc, exitcode, cerr, field1, field2, req_fields1, req_fields2,
                   outfields1, outfields2, unpaired, only_unpaired, unique, run>>

\* -u
OptU ==
    /\ pc = "args"
    /\ unique' = FALSE
    /\ UNCHANGED <<pc, exitcode, cerr, field1, field2, req_fields1, req_fields2,
                   outfields1, outfields2, unpaired, only_unpaired, header, run>>

\* an option letter the switch does not know
OptUnknown ==
    /\ pc = "args"
    /\ Fail("Unknown parameter", "", 0)
    /\ UNCHANGED <<config, run>>

\* the first non-option argument: the two file names, the field numbers
\* (filesOk: two names are given and they differ)
ArgsDone(filesOk) ==
    /\ pc = "args"
    /\ IF ~filesOk
       THEN Fail("Error: input files", "", 0) /\ UNCHANGED <<req_fields1, req_fields2>>
       ELSE IF field1 < 1 \/ field2 < 1
       THEN Fail("Error: field numbers have to be >= 1!", "", 0)
            /\ UNCHANGED <<req_fields1, req_fields2>>
       ELSE /\ req_fields1' = Max(req_fields1, field1)
            /\ req_fields2' = Max(req_fields2, field2)
            /\ pc' = IF header THEN "header1" ELSE "build"
            /\ Quiet
    /\ UNCHANGED <<field1, field2, outfields1, outfields2, unpaired,
                   only_unpaired, header, unique, run>>

(* ------------------------------ FILE1: build ---------------------------- *)
\* the data lines read from FILE1 so far (the header line is not one)
DataLines1 == s1.line - (IF header /\ pc # "header1" /\ s1.line > 0 THEN 1 ELSE 0)

\* read_line() on FILE1 fails while the header is expected
Header1Fail(e) ==
    /\ pc = "header1"
    /\ s1' = [s1 EXCEPT !.err = e]
    /\ Fail("Error reading header from file 1", "", s1.line)
    /\ UNCHANGED <<config, s2, dict, tmp, file1header, file2header, line2, out,
                   counters, in2, emitted>>

\* the header line of FILE1: its first req_fields1 fields are kept
Header1(h) ==
    /\ pc = "header1"
    /\ IF Len(h) < req_fields1
       THEN /\ s1' = [line |-> s1.line + 1, err |-> T_EOL]
            /\ Fail("Error reading header from file 1", "", s1.line + 1)
            /\ UNCHANGED file1header
       ELSE /\ s1' = [line |-> s1.line + 1, err |-> T_OK]
            /\ file1header' = Prefix(h, req_fields1)
            /\ pc' = "build"
            /\ Quiet
    /\ UNCHANGED <<config, s2, dict, tmp, file2header, line2, out, counters, in2, emitted>>

\* (changed: the table is not searched before the insertion)
DuplicateKeyOff(d, key) == FALSE

\* if(unique) { it = dict.find(key); if(it != dict.end()) ... }
DuplicateKey(d, key) == unique /\ key \in DOMAIN d

\* dict[key].lines.push_back(tmp): a new key gets a group with seen = false
Insert(d, key, rec) ==
    [k \in DOMAIN d \cup {key} |->
        IF k = key
        THEN IF key \in DOMAIN d
             THEN [d[key] EXCEPT !.lines = Append(@, rec)]
             ELSE [lines |-> <<rec>>, seen |-> FALSE]
        ELSE d[k]]

\* one turn of the build loop on a line of FILE1
BuildLine(ln) ==
    /\ pc = "build"
    /\ DataLines1 < MaxBuild
    /\ LET read_fields == IF outfields1 = << >> THEN 0 ELSE req_fields1
           p == ParseLine(ln, read_fields)
           n == s1.line + 1
       IN  /\ tmp' = p.res
           /\ IF ~p.ok
              THEN \* ReadLine fails, the loop breaks, the last error is not T_EOF
                   /\ s1' = [line |-> n, err |-> T_EOL]
                   /\ Fail("ReadLine: parse error in file 1", "", n)
                   /\ UNCHANGED dict
              ELSE /\ s1' = [line |-> n, err |-> T_OK]
                   /\ IF read_fields = 0 /\ Len(p.res) < field1
                      THEN Fail("Too few fields in file 1", "", n) /\ UNCHANGED dict
                      ELSE LET key == Field(p.res, field1)
                           IN  IF DuplicateKey(dict, key)
                               THEN Fail("Duplicate key in file 1", key, n) /\ UNCHANGED dict
                               ELSE /\ dict' = Insert(dict, key, p.res)
                                    /\ UNCHANGED pc /\ Quiet
    /\ UNCHANGED <<config, s2, file1header, file2header, line2, out, counters, in2, emitted>>

\* (changed: the last error is not looked at after the build loop)
BuildFailedOff(e) == FALSE

\* if(s1.get_last_error() != T_EOF) return 1;
BuildFailed(e) == e # T_EOF

\* read_line() on FILE1 fails: end of file ends the build, an error ends main
BuildEnd(e) ==
    /\ pc = "build"
    /\ s1' = [s1 EXCEPT !.err = e]
    /\ tmp' = << >>
    /\ cerr' = IF e # T_EOF THEN Append(cerr, Msg("read error in file 1", "", s1.line)) ELSE cerr
    /\ IF BuildFailed(e) THEN Exit(1)
       ELSE pc' = (IF header THEN "header2" ELSE "probe") /\ UNCHANGED exitcode
    /\ UNCHANGED <<config, s2, dict, file1header, file2header, line2, out, counters,
                   in2, emitted>>

(* ------------------------------ FILE2: probe ---------------------------- *)
\* sw << ... : the tokens of the rows go to the end of the output
Toks(rows) == IF rows = << >> THEN << >>
              ELSE LET F[i \in 1..Len(rows)] ==
                          IF i = 1 THEN rows[1].toks ELSE F[i - 1] \o rows[i].toks
                   IN  F[Len(rows)]
Tags(rows) == [i \in 1..Len(rows) |-> rows[i].tag]
\* (changed: what is written goes in front of what was written before)
EmitFront(o, rows) == Toks(rows) \o o
Emit(o, rows) == o \o Toks(rows)

\* read_line() on FILE2 fails while the header is expected
Header2Fail(e) ==
    /\ pc = "header2"
    /\ s2' = [s2 EXCEPT !.err = e]
    /\ Fail("Error reading header from file 2", "", s2.line)
    /\ UNCHANGED <<config, s1, dict, tmp, file1header, file2header, line2, out,
                   counters, in2, emitted>>

\* the header line of FILE2; both headers are written, without key lookup
Header2(h) ==
    /\ pc = "header2"
    /\ IF Len(h) < req_fields2
       THEN /\ s2' = [line |-> s2.line + 1, err |-> T_EOL]
            /\ Fail("Error reading header from file 1", "", s2.line + 1)
            /\ UNCHANGED <<out, file2header>>
       ELSE /\ s2' = [line |-> s2.line + 1, err |-> T_OK]
            /\ file2header' = Prefix(h, req_fields2)
            /\ out' = out \o HeaderOut(file1header, file2header')
            /\ pc' = "probe"
            /\ Quiet
    /\ UNCHANGED <<config, s1, dict, tmp, file1header, line2, counters, in2, emitted>>

\* (changed: a hit writes the first line of the group only)
HitRowsFirst(match, l2, key, p) ==
    IF ~only_unpaired
    THEN << [toks |-> PairedRow(match.lines[1], l2),
             tag  |-> [kind |-> "paired", probe |-> p, key |-> key, idx |-> 1]] >>
    ELSE << >>

\* (changed: a hit writes its rows under -v as well)
HitRowsAlways(match, l2, key, p) ==
    [i \in 1..Len(match.lines) |->
        [toks |-> PairedRow(match.lines[i], l2),
         tag  |-> [kind |-> "paired", probe |-> p, key |-> key, idx |-> i]]]

\* the rows of a probe hit: one per line of the group, in the group's order,
\* none when -v suppresses joined lines
HitRows(match, l2, key, p) ==
    IF ~only_unpaired
    THEN [i \in 1..Len(match.lines) |->
             [toks |-> PairedRow(match.lines[i], l2),
              tag  |-> [kind |-> "paired", probe |-> p, key |-> key, idx |-> i]]]
    ELSE << >>

\* (changed: the lines of the group are counted at every hit)
Matched1EveryHit(m1, match) ==
    IF ~only_unpaired THEN m1 + Len(match.lines) ELSE m1

\* if(!only_unpaired) { if(!match.seen) matched1 += match.lines.size(); ... }
Matched1After(m1, match) ==
    IF ~only_unpaired /\ ~match.seen THEN m1 + Len(match.lines) ELSE m1

\* (changed: a probe line counts only when it is the first to hit its group)
Matched2FirstHit(m2, match) == IF match.seen THEN m2 ELSE m2 + 1

\* matched2++
Matched2After(m2, match) == m2 + 1

\* (changed: a hit flips the flag of the group)
MarkSeenToggle(d, key) == [d EXCEPT ![key].seen = ~@]

\* (changed: with -v the flag of the group is left alone)
MarkSeenUnlessSuppressed(d, key) ==
    IF only_unpaired THEN d ELSE [d EXCEPT ![key].seen = TRUE]

\* match.seen = true
MarkSeen(d, key) == [d EXCEPT ![key].seen = TRUE]

\* (changed: any -a / -v prints the unpaired lines of FILE2)
MissRowsAny(l2, key, p) ==
    IF unpaired # 0
    THEN << [toks |-> UnpairedRow2(l2),
             tag  |-> [kind |-> "unpaired2", probe |-> p, key |-> key, idx |-> 0]] >>
    ELSE << >>

\* the row of a probe miss: one when unpaired lines of FILE2 are printed
MissRows(l2, key, p) ==
    IF unpaired = 2
    THEN << [toks |-> UnpairedRow2(l2),
             tag  |-> [kind |-> "unpaired2", probe |-> p, key |-> key, idx |-> 0]] >>
    ELSE << >>

\* (changed: a counter grows by one for a run of rows, however long)
CountedOnce(n, rows) == IF rows = << >> THEN n ELSE n + 1

\* out_lines++ / unmatched++ after the '\n' of every row of `rows`
Counted(n, rows) == n + Len(rows)

\* one turn of the probe loop on a line of FILE2
ProbeLine(ln) ==
    /\ pc = "probe"
    /\ Len(in2) < MaxProbe
    /\ in2' = Append(in2, ln)
    /\ LET p == ParseLine(ln, IF outfields2 = << >> THEN 0 ELSE req_fields2)
           n == s2.line + 1
       IN  /\ line2' = p.res
           /\ IF ~p.ok
              THEN /\ s2' = [line |-> n, err |-> T_EOL]
                   /\ cerr' = Append(cerr, Msg("parse error in file 2", "", n))
                   /\ pc' = "finish"
                   /\ UNCHANGED <<dict, out, counters, emitted>>
              ELSE IF outfields2 = << >> /\ Len(p.res) < field2
              THEN /\ s2' = [line |-> n, err |-> T_OK]
                   /\ cerr' = Append(cerr, Msg("Too few fields in file 2", "", n))
                   /\ pc' = "finish"
                   /\ UNCHANGED <<dict, out, counters, emitted>>
              ELSE LET key == Field(p.res, field2)
                   IN  /\ s2' = [line |-> n, err |-> T_OK]
                       /\ UNCHANGED <<pc, cerr>>
                       /\ IF key \in DOMAIN dict
                          THEN LET match == dict[key]
                                   rows == HitRows(match, p.res, key, Len(in2'))
                               IN  /\ matched1' = Matched1After(matched1, match)
                                   /\ out' = Emit(out, rows)
                                   /\ out_lines' = Counted(out_lines, rows)
                                   /\ emitted' = emitted \o Tags(rows)
                                   /\ dict' = MarkSeen(dict, key)
                                   /\ matched2' = Matched2After(matched2, match)
                                   /\ UNCHANGED unmatched
                          ELSE LET rows == MissRows(p.res, key, Len(in2'))
                               IN  /\ out' = Emit(out, rows)
                                   /\ out_lines' = Counted(out_lines, rows)
                                   /\ unmatched' = Counted(unmatched, rows)
                                   /\ emitted' = emitted \o Tags(rows)
                                   /\ UNCHANGED <<dict, matched1, matched2>>
    /\ UNCHANGED <<exitcode, config, s1, tmp, file1header, file2header>>

\* read_line() on FILE2 fails: the loop breaks on end of file and on an error
ProbeEnd(e) ==
    /\ pc = "probe"
    /\ s2' = [s2 EXCEPT !.err = e]
    /\ cerr' = IF e # T_EOF THEN Append(cerr, Msg("read error in file 2", "", s2.line)) ELSE cerr
    /\ pc' = "finish"
    /\ UNCHANGED <<exitcode, config, s1, dict, tmp, file1header, file2header, line2,
                   out, counters, in2, emitted>>

(* ------------------------------ after the loop -------------------------- *)
\* (changed: the sweep does not look at the seen flag)
GroupRowsAll(g, key) ==
    [i \in 1..Len(g.lines) |->
        [toks |-> UnpairedRow1(g.lines[i]),
         tag  |-> [kind |-> "unpaired1", probe |-> 0, key |-> key, idx |-> i]]]

\* the rows of one group in the sweep: one per line when the group was not seen
GroupRows(g, key) ==
    IF g.seen = FALSE
    THEN [i \in 1..Len(g.lines) |->
             [toks |-> UnpairedRow1(g.lines[i]),
              tag  |-> [kind |-> "unpaired1", probe |-> 0, key |-> key, idx |-> i]]]
    ELSE << >>

\* for(const auto& x : dict): the groups are visited in the table's order `ord`
RECURSIVE SweepRows(_, _)
SweepRows(d, ord) ==
    IF ord = << >> THEN << >>
    ELSE GroupRows(d[Head(ord)], Head(ord)) \o SweepRows(d, Tail(ord))

\* unmatched lines of FILE1 when -a 1 / -v 1, flush, statistics, end of main
Finish ==
    /\ pc = "finish"
    /\ IF unpaired = 1
       THEN \E ord \in Perms(DOMAIN dict) :
              LET rows == SweepRows(dict, ord)
              IN  /\ out' = Emit(out, rows)
                  /\ emitted' = emitted \o Tags(rows)
                  /\ out_lines' = Counted(out_lines, rows)
                  /\ unmatched' = Counted(unmatched, rows)
       ELSE UNCHANGED <<out, emitted, out_lines, unmatched>>
    /\ cerr' = Append(cerr, Msg("statistics", "", 0))
    /\ Exit(0)
    /\ UNCHANGED <<config, s1, s2, dict, tmp, file1header, file2header, line2,
                   matched1, matched2, in2>>

(* ------------------------------ specification --------------------------- *)
ReadErrors == {T_EOF, T_READ_ERROR}

Next ==
    \/ \E n \in FieldArgs : OptField1(n)
    \/ \E n \in FieldArgs : OptField2(n)
    \/ \E n \in FieldArgs : OptJoin(n)
    \/ \E n \in FileNums : OptA(n)
    \/ \E n \in FileNums : OptV(n)
    \/ \E l \in ListArgs : OptO1(l)
    \/ \E l \in ListArgs : OptO2(l)
    \/ OptH
    \/ OptU
    \/ OptUnknown
    \/ \E ok \in BOOLEAN : ArgsDone(ok)
    \/ \E e \in ReadErrors : Header1Fail(e)
    \/ \E h \in Headers : Header1(h)
    \/ \E ln \in Lines : BuildLine(ln)
    \/ \E e \in ReadErrors : BuildEnd(e)
    \/ \E e \in ReadErrors : Header2Fail(e)
    \/ \E h \in Headers : Header2(h)
    \/ \E ln \in Lines : ProbeLine(ln)
    \/ \E e \in ReadErrors : ProbeEnd(e)
    \/ Finish

Spec == Init /\ [][Next]_vars

(* ------------------------------ reading the state ----------------------- *)
\* a probe line as the probe loop parses it, whether the loop accepts it,
\* and its join key
Parsed2(ln) == ParseLine(ln, IF outfields2 = << >> THEN 0 ELSE req_fields2)
Accepted2(ln) == Parsed2(ln).ok /\ Len(Parsed2(ln).res) >= field2
Key2(ln) == Field(Parsed2(ln).res, field2)

\* the probe lines processed so far whose key is / is not in the table
Hit2 == {p \in 1..Len(in2) : Accepted2(in2[p]) /\ Key2(in2[p]) \in DOMAIN dict}
Miss2 == {p \in 1..Len(in2) : Accepted2(in2[p]) /\ Key2(in2[p]) \notin DOMAIN dict}

\* the rows written so far, by kind and by probe line
RowsOfKind(kind) == {i \in 1..Len(emitted) : emitted[i].kind = kind}
RowsOfProbe(p) == {i \in 1..Len(emitted) : emitted[i].probe = p}

\* the number of lines the table holds
TotalLines(d) == LET S[K \in SUBSET DOMAIN d] ==
                        IF K = {} THEN 0
                        ELSE LET k == CHOOSE x \in K : TRUE
                             IN  Len(d[k].lines) + S[K \ {k}]
                 IN  S[DOMAIN d]

\* the header text at the start of the output
HeaderText == IF file2header # << >> THEN HeaderOut(file1header, file2header) ELSE << >>

\* the text of the row a log entry stands for
RowText(e) ==
    IF e.kind = "paired" THEN PairedRow(dict[e.key].lines[e.idx], Parsed2(in2[e.probe]).res)
    ELSE IF e.kind = "unpaired2" THEN UnpairedRow2(Parsed2(in2[e.probe]).res)
    ELSE UnpairedRow1(dict[e.key].lines[e.idx])

\* the output is the header text followed by the logged rows, in log order
LogText == LET F[i \in 0..Len(emitted)] ==
                  IF i = 0 THEN << >> ELSE F[i - 1] \o RowText(emitted[i])
           IN  F[Len(emitted)]
OutConsistent == out = HeaderText \o LogText

\* the output after the header text, cut into rows at every '\n'
DataText == SubSeq(out, Len(HeaderText) + 1, Len(out))
RECURSIVE SplitRows(_, _)
SplitRows(toks, cur) ==
    IF toks = << >> THEN (IF cur = << >> THEN << >> ELSE <<cur>>)
    ELSE IF Head(toks) = NL THEN <<cur>> \o SplitRows(Tail(toks), << >>)
    ELSE SplitRows(Tail(toks), Append(cur, Head(toks)))
DataRows == SplitRows(DataText, << >>)

\* the columns of a row: the text between separators ("" for an empty column)
RECURSIVE Columns(_, _)
Columns(row, cur) ==
    IF row = << >> THEN <<cur>>
    ELSE IF Head(row) = SEP THEN <<cur>> \o Columns(Tail(row), "")
    ELSE Columns(Tail(row), Head(row))

\* n empty columns
Empties(n) == [i \in 1..n |-> ""]
\* the columns a record contributes under a field list (empty list: all fields)
Projected(rec, fields) ==
    IF fields = << >> THEN rec ELSE [i \in 1..Len(fields) |-> rec[fields[i]]]

\* the rows a processed probe line must have produced
ExpectedRows(p) ==
    IF ~Accepted2(in2[p]) THEN 0
    ELSE IF Key2(in2[p]) \in DOMAIN dict
    THEN (IF only_unpaired THEN 0 ELSE Len(dict[Key2(in2[p])].lines))
    ELSE (IF unpaired = 2 THEN 1 ELSE 0)

(* ------------------------------ C1 -------------------------------------- *)
\* C1: the probe lines are processed in input order and the rows of probe
\* line p are one contiguous run, complete before line p+1 is read: at every
\* moment the output is the logged rows in log order, every line read so far
\* has all its rows, no row belongs to a line not yet read, and a row of an
\* earlier probe line precedes every row of a later one.
C1_ProbeOrder ==
    /\ OutConsistent
    /\ \A p \in 1..Len(in2) : Cardinality(RowsOfProbe(p)) = ExpectedRows(p)
    /\ \A i \in 1..Len(emitted) : emitted[i].probe <= Len(in2)
    /\ \A i, j \in 1..Len(emitted) :
          (i < j /\ emitted[i].probe > 0 /\ emitted[j].probe > 0)
             => emitted[i].probe <= emitted[j].probe

\* two probe lines have produced rows, the first of them a run of two
C1_Witness ==
    /\ Cardinality(RowsOfProbe(1)) = 2
    /\ Cardinality(RowsOfProbe(2)) >= 1
    /\ Len(in2) = 2

(* ------------------------------ C2 -------------------------------------- *)
\* C2: when joined output is not suppressed, every processed probe line
\* whose key is in the table has exactly one paired row for each line of the
\* matching group (k rows, the group's lines 1..k once each); with
\* uniqueness enforced k = 1, so the paired rows are as many as the probe
\* lines whose key is in the table.
C2_PairedRows ==
    ~only_unpaired =>
       /\ OutConsistent
       /\ \A p \in Hit2 :
             LET k == Len(dict[Key2(in2[p])].lines)
                 rows == RowsOfProbe(p)
             IN  /\ Cardinality(rows) = k
                 /\ \A i \in rows : emitted[i].kind = "paired" /\ emitted[i].key = Key2(in2[p])
                 /\ \A n \in 1..k : Cardinality({i \in rows : emitted[i].idx = n}) = 1
       /\ unique => /\ \A k \in DOMAIN dict : Len(dict[k].lines) = 1
                    /\ Cardinality(RowsOfKind("paired")) = Cardinality(Hit2)

\* with -u, a probe line has hit a group of two lines and has its two rows
C2_Witness ==
    /\ ~unique /\ ~only_unpaired
    /\ \E p \in Hit2 : /\ Len(dict[Key2(in2[p])].lines) = 2
                       /\ Cardinality(RowsOfProbe(p)) = 2
                       /\ Cardinality(RowsOfKind("paired")) >= 2

(* ------------------------------ C3 -------------------------------------- *)
\* C3: with uniqueness enforced, the build line that carries a key already
\* in the table ends the run at once with exit code 1; nothing has been
\* written to standard output (no header either) and nothing has been read
\* from the probe side.
C3_DuplicateKeyAborts ==
    [][ ( /\ pc = "build" /\ unique
          /\ s1'.line = s1.line + 1 /\ s1'.err = T_OK
          /\ Len(tmp') >= field1
          /\ Field(tmp', field1) \in DOMAIN dict )
        => ( /\ pc' = "exit" /\ exitcode' = 1
             /\ out' = << >>
             /\ s2' = [line |-> 0, err |-> T_OK] /\ in2' = << >>
             /\ dict' = dict ) ]_vars

\* a run with -H has ended on the duplicate key of its second data line
C3_Witness ==
    /\ pc = "exit" /\ exitcode = 1 /\ header /\ unique
    /\ cerr # << >> /\ cerr[Len(cerr)].msg = "Duplicate key in file 1"
    /\ cerr[Len(cerr)].line = 3
    /\ out = << >> /\ s2.line = 0

(* ------------------------------ C4 -------------------------------------- *)
\* C4: phase barrier.  Whenever anything has been read from the probe side,
\* or a lookup has marked a group or counted a hit, or main is past the
\* build loop, the build side has been read to end of file and every one
\* of its data lines is in the table; a build phase that ends with an error
\* leaves the probe side untouched.
C4_PhaseBarrier ==
    /\ ( \/ s2.line > 0 \/ s2.err # T_OK \/ in2 # << >> \/ line2 # << >>
         \/ matched2 > 0 \/ \E k \in DOMAIN dict : dict[k].seen
         \/ pc \in {"header2", "probe", "finish"} )
       => /\ s1.err = T_EOF
          /\ TotalLines(dict) = DataLines1
    /\ (pc = "exit" /\ s1.err # T_EOF)
       => s2 = [line |-> 0, err |-> T_OK] /\ in2 = << >> /\ emitted = << >>

\* the probe loop is running on a table of two lines
C4_Witness ==
    /\ pc = "probe" /\ s2.line > 0 /\ in2 # << >>
    /\ TotalLines(dict) = 2 /\ DataLines1 = 2

(* ------------------------------ C5 -------------------------------------- *)
\* the keys of the table that a processed probe line has hit
HitKeys == {Key2(in2[p]) : p \in Hit2}

\* the lines of the groups in K, summed
LinesOf(K) == LET S[J \in SUBSET K] ==
                     IF J = {} THEN 0
                     ELSE LET k == CHOOSE x \in J : TRUE
                          IN  Len(dict[k].lines) + S[J \ {k}]
              IN  S[K]

C6_Matched2ProbeHits == matched2 = Cardinality(Hit2)

\* a run with -v has ended after two probe lines hit the same key
C6_Witness ==
    /\ pc = "exit" /\ exitcode = 0 /\ only_unpaired
    /\ Cardinality(Hit2) = 2 /\ Cardinality(HitKeys) = 1 /\ matched2 = 2

(* ------------------------------ C7 -------------------------------------- *)
\* the text of data row i of the output, without its '\n'
DataRow(i) == DataRows[i]

\* C7: with -a 1 / -v 1, once the probe loop has ended, every group not
\* seen has exactly one row per line (the group's lines 1..n once each, the
\* probe-side columns empty), every group seen has none, these rows come
\* after every row of the probe loop, and the unmatched counter is their
\* number; while the probe loop runs there is no such row.
C7_UnmatchedBuildSweep ==
    /\ pc # "exit" => RowsOfKind("unpaired1") = {}
    /\ (pc = "exit" /\ exitcode = 0 /\ unpaired = 1) =>
          /\ OutConsistent
          /\ Len(DataRows) = Len(emitted)
          /\ \A k \in DOMAIN dict :
                LET rows == {i \in RowsOfKind("unpaired1") : emitted[i].key = k}
                    n == Len(dict[k].lines)
                IN  IF dict[k].seen THEN rows = {}
                    ELSE /\ Cardinality(rows) = n
                         /\ \A m \in 1..n : Cardinality({i \in rows : emitted[i].idx = m}) = 1
          /\ \A i \in RowsOfKind("unpaired1") :
                /\ emitted[i].key \in DOMAIN dict
                /\ Columns(DataRow(i), "") =
                      Projected(dict[emitted[i].key].lines[emitted[i].idx], outfields1)
                         \o Empties(Len(outfields2))
                /\ \A j \in 1..Len(emitted) : emitted[j].kind # "unpaired1" => j < i
          /\ unmatched = Cardinality(RowsOfKind("unpaired1"))
          /\ out_lines = Len(emitted)

\* a run with -a 1 has ended: one group was hit and has its paired row, the
\* other was not and has its row after it
C7_Witness ==
    /\ pc = "exit" /\ exitcode = 0 /\ unpaired = 1 /\ ~only_unpaired
    /\ \E k \in DOMAIN dict : dict[k].seen
    /\ \E k \in DOMAIN dict : ~dict[k].seen
    /\ RowsOfKind("paired") # {} /\ RowsOfKind("unpaired1") # {}
    /\ unmatched = 1

(* ------------------------------ C8 -------------------------------------- *)
\* the number of '\n' in a text
Newlines(toks) == Cardinality({i \in 1..Len(toks) : toks[i] = NL})

\* C8: with -v 2 no paired row is ever written: every row is the row of a
\* processed probe line whose key is not in the table, one per such line,
\* and their number is the unmatched counter and the rows-emitted counter.
C8_OnlyUnmatchedProbe ==
    (unpaired = 2 /\ only_unpaired) =>
       /\ RowsOfKind("paired") = {} /\ RowsOfKind("unpaired1") = {}
       /\ \A p \in 1..Len(in2) : Cardinality(RowsOfProbe(p)) = IF p \in Miss2 THEN 1 ELSE 0
       /\ \A i \in 1..Len(emitted) : emitted[i].probe \in Miss2
       /\ OutConsistent
       /\ Newlines(out) = Cardinality(Miss2)
       /\ unmatched = Cardinality(Miss2)
       /\ out_lines = Cardinality(Miss2)

\* a run with -v 2 has ended after one probe hit and one probe miss
C8_Witness ==
    /\ pc = "exit" /\ exitcode = 0 /\ unpaired = 2 /\ only_unpaired
    /\ Cardinality(Hit2) = 1 /\ Cardinality(Miss2) = 1
    /\ Len(emitted) = 1 /\ unmatched = 1

(* ------------------------------ C9 -------------------------------------- *)
\* the probe loop has just processed a line whose key is not in the table
MissStep ==
    /\ pc = "probe" /\ pc' = "probe"
    /\ Len(in2') = Len(in2) + 1
    /\ Accepted2(in2'[Len(in2')])
    /\ Key2(in2'[Len(in2')]) \notin DOMAIN dict

\* what a step has added to the output
Added == SubSeq(out', Len(out) + 1, Len(out'))

\* C9: on a probe miss, with -a 2 / -v 2 exactly one row is written for the
\* line, its build-side columns empty and its probe-side columns the
\* line's, and the unmatched counter grows by one; otherwise nothing is
\* written and no counter changes.
C9_ProbeMiss ==
    [][ MissStep =>
          IF unpaired = 2
          THEN /\ Len(out') > Len(out) /\ SubSeq(out', 1, Len(out)) = out
               /\ Newlines(Added) = 1 /\ Added[Len(Added)] = NL
               /\ Columns(SubSeq(Added, 1, Len(Added) - 1), "") =
                     Empties(Len(outfields1)) \o Projected(line2', outfields2)
               /\ unmatched' = unmatched + 1
               /\ out_lines' = out_lines + 1
               /\ UNCHANGED <<matched1, matched2>>
          ELSE UNCHANGED <<out, out_lines, matched1, matched2, unmatched>>
      ]_vars

\* a missed probe line has its row, with two empty build-side columns
C9_Witness ==
    /\ unpaired = 2 /\ outfields1 # << >>
    /\ emitted # << >> /\ emitted[Len(emitted)].kind = "unpaired2"
    /\ Miss2 # {} /\ unmatched = 1

(* ------------------------------ C10 ------------------------------------- *)
\* an error has been reported on std::cerr
ErrorReported == \E i \in 1..Len(cerr) : cerr[i].msg # "statistics"

\* C10: the exit code is 1 whenever an error occurred (configuration, read,
\* parse on either side, duplicate key) and 0 only for a run without one.
C10_ExitCode ==
    pc = "exit" => (exitcode = 1 <=> ErrorReported)

(* ------------------------------ C11 ------------------------------------- *)
\* C11: a fatal error aborts the rest of the run: once an error has been
\* reported, in either phase, no further row is written (no row of a later
\* probe line, no row of the -a 1 / -v 1 sweep) and what was written before
\* stays as it is.
C11_ErrorStopsOutput ==
    [][ ErrorReported => (out' = out /\ emitted' = emitted) ]_vars

(* ------------------------------ C12 ------------------------------------- *)
\* C12: -o1 "" (resp. -o2 "") selects zero columns of that side: once the
\* option has been given with the empty string, the projection of any record
\* of that side writes no field at all, unlike the omitted option, which
\* writes every field.
C12_EmptyListSelectsNothing ==
    [][ /\ OptO1(<< >>) =>
            \A rec \in Lines : WriteFields(rec, outfields1', TRUE).toks = << >>
        /\ OptO2(<< >>) =>
            \A rec \in Lines : WriteFields(rec, outfields2', TRUE).toks = << >>
      ]_vars

(* ------------------------------ C13 ------------------------------------- *)
\* the record a logged unmatched row was written from
RowRecord(e) ==
    IF e.kind = "unpaired1" THEN dict[e.key].lines[e.idx]
    ELSE Parsed2(in2[e.probe]).res

\* C13 as stated: an unmatched row whose missing side has an empty field
\* list carries exactly one empty column for the missing side (first column
\* for a FILE2 line, last column for a FILE1 line).
C13_OnePlaceholder ==
    \A i \in 1..Len(emitted) :
       /\ (emitted[i].kind = "unpaired2" /\ outfields1 = << >>)
            => Columns(DataRow(i), "")
                 = <<"">> \o Projected(RowRecord(emitted[i]), outfields2)
       /\ (emitted[i].kind = "unpaired1" /\ outfields2 = << >>)
            => Columns(DataRow(i), "")
                 = Projected(RowRecord(emitted[i]), outfields1) \o <<"">>

\* C13: an unmatched row whose missing side has an empty field list carries
\* nothing for the missing side, neither an empty column nor a separator:
\* its columns are exactly the columns of the line that is present (all its
\* fields, or the fields its own list selects).
C13_NoPlaceholder ==
    /\ OutConsistent
    /\ \A i \in 1..Len(emitted) :
          /\ (emitted[i].kind = "unpaired2" /\ outfields1 = << >>)
               => Columns(DataRow(i), "") = Projected(RowRecord(emitted[i]), outfields2)
          /\ (emitted[i].kind = "unpaired1" /\ outfields2 = << >>)
               => Columns(DataRow(i), "") = Projected(RowRecord(emitted[i]), outfields1)

\* an unmatched two-field FILE2 line has been written while the list of
\* FILE1 is empty: the row is the line's two fields and nothing else
C13_Witness ==
    \E i \in 1..Len(emitted) :
       /\ emitted[i].kind = "unpaired2" /\ outfields1 = << >>
       /\ DataRow(i) = <<"b", SEP, "a">>

(* ------------------------------ C14 ------------------------------------- *)
\* C14: with -H the header is a row of its own at the start of the output:
\* once both header lines have been read, the output begins with the
\* projected header fields of FILE1, then those of FILE2, then '\n', so
\* that the first data row starts on a new line; the header lines are not
\* in the table and are not counted as probe lines.
C14_HeaderRow ==
    file2header # << >> =>
       /\ Len(out) > Len(HeaderText)
       /\ SubSeq(out, 1, Len(HeaderText) + 1) = HeaderText \o <<NL>>
       /\ \A k \in DOMAIN dict : \A h \in Headers : \A i \in 1..Len(h) : k # h[i]
       /\ \A i \in 1..Len(emitted) : emitted[i].probe <= Len(in2)

(* ------------------------------ C16 ------------------------------------- *)
\* C16: from the end of the build loop on (header of FILE2, probe loop,
\* sweep) the table changes in its seen flags only: every step keeps the
\* set of keys and the lines of every group, and a seen flag that is true
\* stays true.
C16_TableFrame ==
    [][ (pc \in {"header2", "probe", "finish"}) =>
          ( /\ DOMAIN dict' = DOMAIN dict
            /\ \A k \in DOMAIN dict :
                  ( /\ dict'[k].lines = dict[k].lines
                    /\ dict[k].seen => dict'[k].seen ) ) ]_vars

\* a group of two lines has been hit by two probe lines (the second hit
\* finds it already seen) and the sweep has run
C16_Witness ==
    /\ pc = "exit" /\ exitcode = 0 /\ unpaired = 1
    /\ \E k \in DOMAIN dict :
          /\ dict[k].seen /\ Len(dict[k].lines) = 2
          /\ Cardinality({p \in Hit2 : Key2(in2[p]) = k}) = 2

(* ------------------------------ C17 ------------------------------------- *)
\* the (key, line number) pairs of the unmatched FILE1 rows written
SweptRecords == {<<emitted[i].key, emitted[i].idx>> : i \in RowsOfKind("unpaired1")}
\* the (key, line number) pairs of the table's groups whose key is in K
RecordsOf(K) == UNION {{<<k, n>> : n \in 1..Len(dict[k].lines)} : k \in K}

\* C17: in every mode, -v 1 and -v 2 included, a group is marked seen
\* exactly when one of the probe lines processed so far had its key; and
\* when the probe side was read to end of file, the run with -a 1 / -v 1
\* ends with exactly one unmatched row for every line of every group whose
\* key is the key of no probe line, and no other unmatched FILE1 row.
C17_SeenIffHit ==
    /\ \A k \in DOMAIN dict : dict[k].seen <=> k \in HitKeys
    /\ (pc = "exit" /\ exitcode = 0 /\ unpaired = 1 /\ s2.err = T_EOF) =>
          /\ SweptRecords = RecordsOf(DOMAIN dict \ HitKeys)
          /\ Cardinality(RowsOfKind("unpaired1")) = Cardinality(SweptRecords)

\* a run with -v 1 read FILE2 to its end: one group was hit (no row was
\* written for it), another was not and has its row
C17_Witness ==
    /\ pc = "exit" /\ unpaired = 1 /\ only_unpaired /\ s2.err = T_EOF
    /\ HitKeys # {} /\ DOMAIN dict \ HitKeys # {}
    /\ Cardinality(RowsOfKind("unpaired1")) = 1
    /\ RowsOfKind("paired") = {}

(* ------------------------------ C18 ------------------------------------- *)
\* every index a record of FILE n is read at: the join field and the
\* fields its list selects
Indexed1 == Max(field1, SeqMax(outfields1))
Indexed2 == Max(field2, SeqMax(outfields2))

\* C18: no field is read past the end of its record.  Every line kept in
\* the table, every probe line that was looked up and both header vectors
\* have at least as many fields as the largest index they are read at (join
\* field and listed fields, whatever -o options came before the last one),
\* so no key and no output field is the result of a read out of bounds.
C18_NoOutOfBounds ==
    /\ \A i \in 1..Len(out) : out[i] # Field(<< >>, 1)
    /\ \A k \in DOMAIN dict :
          /\ k # Field(<< >>, 1)
          /\ \A i \in 1..Len(dict[k].lines) : Len(dict[k].lines[i]) >= Indexed1
    /\ \A p \in 1..Len(in2) :
          Accepted2(in2[p]) => Len(Parsed2(in2[p]).res) >= Indexed2
    /\ file1header # << >> => Len(file1header) >= SeqMax(outfields1)
    /\ file2header # << >> => Len(file2header) >= SeqMax(outfields2)

\* -o1 2,1 was replaced by -o1 "", the join field of FILE2 is its second
\* and -o2 selects two fields: a one-field FILE1 line is in the table and
\* has a paired row
C18_Witness ==
    /\ outfields1 = << >> /\ req_fields1 = 2 /\ field1 = 1
    /\ field2 = 2 /\ outfields2 = <<2, 1>>
    /\ \E i \in RowsOfKind("paired") :
          Len(dict[emitted[i].key].lines[emitted[i].idx]) = 1

(* ------------------------------ C19 ------------------------------------- *)
\* the separators of a row
Separators(row) == Cardinality({j \in 1..Len(row) : row[j] = SEP})

\* C19: when -o1 lists m fields and -o2 lists n fields, every data row has
\* m+n columns and m+n-1 separators, the columns of FILE1 first: a paired
\* row is the m listed fields of the FILE1 line and the n listed fields of
\* the FILE2 line, an unpaired FILE2 row is m empty columns and the n
\* listed fields, an unpaired FILE1 row is the m listed fields and n empty
\* columns.
C19_ColumnCount ==
    (outfields1 # << >> /\ outfields2 # << >>) =>
       /\ OutConsistent
       /\ Len(DataRows) = Len(emitted)
       /\ \A i \in 1..Len(emitted) :
             LET e == emitted[i]
                 m == Len(outfields1)
                 n == Len(outfields2)
                 cols == Columns(DataRow(i), "")
             IN  /\ Len(cols) = m + n
                 /\ Separators(DataRow(i)) = m + n - 1
                 /\ e.kind = "paired" =>
                       cols = Projected(dict[e.key].lines[e.idx], outfields1)
                              \o Projected(Parsed2(in2[e.probe]).res, outfields2)
                 /\ e.kind = "unpaired2" =>
                       cols = Empties(m) \o Projected(RowRecord(e), outfields2)
                 /\ e.kind = "unpaired1" =>
                       cols = Projected(RowRecord(e), outfields1) \o Empties(n)

\* with -a 1 and two fields listed on both sides, a paired row and the row
\* of an unmatched FILE1 line have been written
C19_Witness ==
    /\ Len(outfields1) = 2 /\ Len(outfields2) = 2 /\ unpaired = 1
    /\ RowsOfKind("paired") # {}
    /\ \E i \in RowsOfKind("unpaired1") : Len(DataRow(i)) = 5

(* ------------------------------ C20 ------------------------------------- *)
\* the rows written for unmatched lines of either file
UnmatchedRows == RowsOfKind("unpaired1") \cup RowsOfKind("unpaired2")

\* the counters agree with what has been written
CountersExact ==
    /\ OutConsistent
    /\ out_lines = Len(emitted) /\ out_lines = Newlines(DataText)
    /\ unmatched = Cardinality(UnmatchedRows)
    /\ (pc \in {"args", "header1", "build"} \/ s1.err # T_EOF)
          => counters = <<0, 0, 0, 0>>

\* C20: at every moment the rows-emitted counter is the number of data
\* rows ended with '\n' so far (the header is not one) and the unmatched
\* counter is the number of rows written for unmatched lines; the four
\* counters are 0 until the build phase is over (and stay 0 in a run that
\* ends in it), and no step makes any of them smaller.
C20_Counters ==
    [][ /\ CountersExact /\ CountersExact'
        /\ out_lines' >= out_lines /\ matched1' >= matched1
        /\ matched2' >= matched2 /\ unmatched' >= unmatched ]_vars

\* a run with -u and -a 2 has written two paired rows for one probe line
\* and the row of an unmatched FILE2 line: three rows, one of them unmatched
C20_Witness ==
    /\ pc = "exit" /\ unpaired = 2 /\ out_lines = 3 /\ unmatched = 1
    /\ matched1 = 2 /\ matched2 = 1

====
